---------------------------- MODULE Spec2Model ----------------------------
(***************************************************************************)
(* Blueqat execution core: qubit addressing (blueqat/gate.py), the gate    *)
(* taxonomy with its fallback protocol, and the circuit run loop with its  *)
(* measurement history (circuit module, exercised by tests/test_circuit).  *)
(***************************************************************************)
EXTENDS Integers, Sequences, FiniteSets, TLC

VARIABLES
    ops,          \* the circuit's gate list (Gate objects, in append order)
    length,       \* the n_qubits argument of the next resolver call
    ret,          \* what the last call returned or raised
    run_history,  \* the circuit's history log, one record per run
    runs_ok       \* number of run() calls that returned normally

vars == <<ops, length, ret, run_history, runs_ok>>

(***************************************************************************)
(* Bounds of the model.                                                    *)
(***************************************************************************)
MaxQubits == 3      \* resolver calls use length in 0..MaxQubits
MaxIdx == 3         \* integer literals range over -MaxIdx..MaxIdx
MaxStep == 2        \* slice steps range over -MaxStep..MaxStep
MaxGates == 2       \* gates in a list handed to find_n_qubits
MaxOps == 3         \* gates in a circuit that is run
MaxRuns == 2        \* successful run() calls on one circuit
DrawDen == 2        \* random draws range over {0, 1/DrawDen, ..} in [0, 1)

(***************************************************************************)
(* Python values.  Every object is a record tagged with its class.         *)
(***************************************************************************)
None == [t |-> "None"]
PyInt(i) == [t |-> "int", v |-> i]
PyFloat == [t |-> "float"]
PyStr == [t |-> "str"]
PySlice(a, b, c) == [t |-> "slice", start |-> a, stop |-> b, step |-> c]
PyTuple(s) == [t |-> "tuple", items |-> s]

\* Objects that have an __index__ method (float, str, tuple, None have none).
HasIndex(x) == x.t = "int"

Max2(a, b) == IF a >= b THEN a ELSE b
Min2(a, b) == IF a <= b THEN a ELSE b

RECURSIVE SeqMax(_)
SeqMax(s) ==
    IF Len(s) = 1 THEN s[1] ELSE Max2(s[1], SeqMax(Tail(s)))

\* Results: a yielded/returned value and the exception class, if any.
Ok(v) == [out |-> v, err |-> "none"]
Raise(e, v) == [out |-> v, err |-> e]

(***************************************************************************)
(* slice.indices(length), as called on gate.py:101.                        *)
(***************************************************************************)
SliceIndices_stop_short(arg, len) ==
    LET step == IF arg.step = None THEN 1 ELSE arg.step.v
        lower == IF step < 0 THEN -1 ELSE 0
        upper == IF step < 0 THEN len - 1 ELSE len
        start == IF arg.start = None
                 THEN (IF step < 0 THEN upper ELSE lower)
                 ELSE IF arg.start.v < 0 THEN Max2(arg.start.v + len, lower)
                 ELSE Min2(arg.start.v, upper)
        stop  == IF arg.stop = None
                 THEN (IF step < 0 THEN lower ELSE upper - 1)
                 ELSE IF arg.stop.v < 0 THEN Max2(arg.stop.v + len, lower)
                 ELSE Min2(arg.stop.v, upper)
    IN  [start |-> start, stop |-> stop, step |-> step]

SliceIndices(arg, len) ==
    LET step == IF arg.step = None THEN 1 ELSE arg.step.v
        lower == IF step < 0 THEN -1 ELSE 0
        upper == IF step < 0 THEN len - 1 ELSE len
        start == IF arg.start = None
                 THEN (IF step < 0 THEN upper ELSE lower)
                 ELSE IF arg.start.v < 0 THEN Max2(arg.start.v + len, lower)
                 ELSE Min2(arg.start.v, upper)
        stop  == IF arg.stop = None
                 THEN (IF step < 0 THEN lower ELSE upper)
                 ELSE IF arg.stop.v < 0 THEN Max2(arg.stop.v + len, lower)
                 ELSE Min2(arg.stop.v, upper)
    IN  [start |-> start, stop |-> stop, step |-> step]

\* while i < stop: yield i; i += step     (gate.py:103-106)
RECURSIVE WhileUp(_, _, _)
WhileUp(i, stop, step) ==
    IF i < stop THEN <<i>> \o WhileUp(i + step, stop, step) ELSE <<>>

\* while i > stop: yield i; i += step     (gate.py:107-110)
RECURSIVE WhileDown(_, _, _)
WhileDown(i, stop, step) ==
    IF i > stop THEN <<i>> \o WhileDown(i + step, stop, step) ELSE <<>>

(***************************************************************************)
(* slicing_singlevalue(arg, length): the values yielded, then the error.   *)
(***************************************************************************)
slicing_index_wrap_short(arg, len) ==
    IF ~HasIndex(arg) THEN Raise("TypeError", <<>>)
    ELSE IF arg.v < 0 THEN Ok(<<arg.v + len - 1>>)
    ELSE Ok(<<arg.v>>)

slicing_index(arg, len) ==
    IF ~HasIndex(arg) THEN Raise("TypeError", <<>>)
    ELSE IF arg.v < 0 THEN Ok(<<arg.v + len>>)
    ELSE Ok(<<arg.v>>)

slicing_slice_inclusive(arg, len) ==
    IF arg.step # None /\ arg.step.v = 0 THEN Raise("ValueError", <<>>)
    ELSE LET ix == SliceIndices(arg, len)
         IN  IF ix.step > 0
             THEN Ok(WhileUp(ix.start, ix.stop + 1, ix.step))
             ELSE Ok(WhileDown(ix.start, ix.stop - 1, ix.step))

slicing_slice(arg, len) ==
    IF arg.step # None /\ arg.step.v = 0 THEN Raise("ValueError", <<>>)
    ELSE LET ix == SliceIndices(arg, len)
         IN  IF ix.step > 0
             THEN Ok(WhileUp(ix.start, ix.stop, ix.step))
             ELSE Ok(WhileDown(ix.start, ix.stop, ix.step))

slicing_singlevalue(arg, len) ==
    IF arg.t = "slice" THEN slicing_slice(arg, len)
    ELSE slicing_index(arg, len)

\* for arg in args: yield from slicing_singlevalue(arg, length)
RECURSIVE SlicingItems(_, _)
SlicingItems(items, len) ==
    IF items = <<>> THEN Ok(<<>>)
    ELSE LET h == slicing_singlevalue(Head(items), len)
         IN  IF h.err # "none" THEN h
             ELSE LET r == SlicingItems(Tail(items), len)
                  IN  [out |-> h.out \o r.out, err |-> r.err]

slicing(args, len) ==
    IF args.t = "tuple" THEN SlicingItems(args.items, len)
    ELSE slicing_singlevalue(args, len)

(***************************************************************************)
(* qubit_pairs(args, length)                                               *)
(***************************************************************************)
Zip(cs, zs) == [k \in 1..Min2(Len(cs), Len(zs)) |-> <<cs[k], zs[k]>>]

qubit_pairs_nocheck(args, len) ==
    IF args.t # "tuple" THEN Raise("ValueError", <<>>)
    ELSE IF Len(args.items) # 2 THEN Raise("ValueError", <<>>)
    ELSE LET controls == slicing(args.items[1], len)
             targets == slicing(args.items[2], len)
         IN  IF controls.err # "none" THEN Raise(controls.err, <<>>)
             ELSE IF targets.err # "none" THEN Raise(targets.err, <<>>)
             ELSE IF Len(controls.out) # Len(targets.out)
                  THEN Raise("ValueError", <<>>)
             ELSE Ok(Zip(controls.out, targets.out))

qubit_pairs_nolen(args, len) ==
    IF args.t # "tuple" THEN Raise("ValueError", <<>>)
    ELSE IF Len(args.items) # 2 THEN Raise("ValueError", <<>>)
    ELSE LET controls == slicing(args.items[1], len)
             targets == slicing(args.items[2], len)
         IN  IF controls.err # "none" THEN Raise(controls.err, <<>>)
             ELSE IF targets.err # "none" THEN Raise(targets.err, <<>>)
             ELSE IF \E k \in 1..Min2(Len(controls.out), Len(targets.out)) :
                         controls.out[k] = targets.out[k]
                  THEN Raise("ValueError", <<>>)
             ELSE Ok(Zip(controls.out, targets.out))

qubit_pairs(args, len) ==
    IF args.t # "tuple" THEN Raise("ValueError", <<>>)
    ELSE IF Len(args.items) # 2 THEN Raise("ValueError", <<>>)
    ELSE LET controls == slicing(args.items[1], len)
             targets == slicing(args.items[2], len)
         IN  IF controls.err # "none" THEN Raise(controls.err, <<>>)
             ELSE IF targets.err # "none" THEN Raise(targets.err, <<>>)
             ELSE IF Len(controls.out) # Len(targets.out)
                  THEN Raise("ValueError", <<>>)
             ELSE IF \E k \in 1..Len(controls.out) :
                         controls.out[k] = targets.out[k]
                  THEN Raise("ValueError", <<>>)
             ELSE Ok(Zip(controls.out, targets.out))

(***************************************************************************)
(* get_maximum_index(indices) and find_n_qubits(gates)                     *)
(***************************************************************************)
maximum_idx_single(idx) ==
    IF idx.t = "slice"
    THEN LET start == IF idx.start # None THEN idx.start.v ELSE -1
             stop == IF idx.stop # None THEN idx.stop.v ELSE 0
         IN  Ok(Max2(start, stop - 1))
    ELSE IF HasIndex(idx) THEN Ok(idx.v)
    ELSE Raise("AttributeError", 0)

get_maximum_index(indices) ==
    IF indices.t = "tuple"
    THEN IF indices.items = <<>> THEN Raise("ValueError", 0)
         ELSE IF \E k \in 1..Len(indices.items) :
                     maximum_idx_single(indices.items[k]).err # "none"
              THEN Raise("AttributeError", 0)
         ELSE Ok(SeqMax([k \in 1..Len(indices.items) |->
                            maximum_idx_single(indices.items[k]).out]))
    ELSE maximum_idx_single(indices)

\* The first gate whose targets make get_maximum_index raise, or 0.
FirstFailing(gates) ==
    LET bad == {k \in 1..Len(gates) :
                   get_maximum_index(gates[k].targets).err # "none"}
    IN  IF bad = {} THEN 0 ELSE CHOOSE k \in bad : \A j \in bad : k <= j

find_n_qubits(gates) ==
    IF FirstFailing(gates) # 0
    THEN get_maximum_index(gates[FirstFailing(gates)].targets)
    ELSE IF gates = <<>> THEN Ok(-1 + 1)
    ELSE Ok(SeqMax([k \in 1..Len(gates) |->
                       get_maximum_index(gates[k].targets).out]) + 1)


(***************************************************************************)
(* Gate taxonomy (gate.py:11-96).  A gate is its class's lowername, its    *)
(* targets and, for the rotation gates, theta.                             *)
(***************************************************************************)
OneQubitNames == {"i", "x", "y", "z", "h", "rx", "ry", "rz", "t", "s", "measure"}
TwoQubitNames == {"cz", "cx"}
RotationNames == {"rx", "ry", "rz"}

Gate(name, targets) ==
    [lowername |-> name, targets |-> targets,
     theta |-> IF name \in RotationNames THEN "theta" ELSE "unset"]

\* Gate.fallback, overridden by IGate only.
Gate_fallback_empty(gate) == Ok(<<>>)

Gate_fallback(gate) ==
    IF gate.lowername = "i" THEN Ok(<<>>)
    ELSE Raise("NotImplementedError", <<>>)

\* OneQubitGate.target_iter / TwoQubitGate.control_target_iter
target_iter(gate, n_qubits) == slicing(gate.targets, n_qubits)
control_target_iter(gate, n_qubits) == qubit_pairs(gate.targets, n_qubits)


(***************************************************************************)
(* Inputs of the addressing calls.                                         *)
(***************************************************************************)
Lengths == 0..MaxQubits
IntLits == {PyInt(i) : i \in -MaxIdx..MaxIdx}
OptInts == {None} \cup IntLits
StepLits == {None} \cup {PyInt(i) : i \in -MaxStep..MaxStep}
SliceLits == {PySlice(a, b, c) : a \in OptInts, b \in OptInts, c \in StepLits}
BadLits == {PyFloat, PyStr}

\* Elements used inside tuples.
TupleElems ==
    {PyInt(-1), PyInt(0), PyInt(2), PyFloat,
     PySlice(None, None, None), PySlice(PyInt(1), None, None),
     PyTuple(<<PyInt(1)>>)}
Tuples ==
    {PyTuple(<<>>)} \cup {PyTuple(<<a>>) : a \in TupleElems}
        \cup {PyTuple(<<a, b>>) : a \in TupleElems, b \in TupleElems}

\* Control and target sides of a two-qubit specifier.
SideInts == {PyInt(-1), PyInt(0), PyInt(1), PyInt(2)}
Sides ==
    SideInts \cup {PyFloat, PySlice(None, None, None), PySlice(None, PyInt(2), None)}
        \cup {PyTuple(<<a, b>>) : a \in SideInts, b \in SideInts}
        \cup {PyTuple(<<PyInt(0), PyInt(1), PyInt(2)>>), PyTuple(<<PyInt(0), PyStr>>)}
PairSpecs ==
    {PyTuple(<<c, z>>) : c \in Sides, z \in Sides}
        \cup {PyInt(0), PySlice(None, None, None), PyTuple(<<PyInt(0)>>),
              PyTuple(<<PyInt(0), PyInt(1), PyInt(2)>>),
              PyTuple(<<PyInt(0), PyFloat, PyInt(2)>>)}

\* Gates whose qubit count is inferred together.
CountGates ==
    {Gate("x", PyInt(0)), Gate("h", PyInt(2)), Gate("z", PyInt(-1)),
     Gate("measure", PyInt(-2)), Gate("x", PySlice(None, None, None)),
     Gate("rz", PySlice(PyInt(1), PyInt(3), None)),
     Gate("y", PyTuple(<<PyInt(1), PyInt(3)>>)), Gate("t", PyFloat),
     Gate("cx", PyTuple(<<PyInt(0), PyInt(1)>>)),
     Gate("cz", PyTuple(<<PyTuple(<<PyInt(0), PyInt(1)>>),
                          PyTuple(<<PyInt(2), PyInt(3)>>)>>))}

RECURSIVE SeqsUpTo(_, _)
SeqsUpTo(S, n) ==
    IF n = 0 THEN {<<>>}
    ELSE LET shorter == SeqsUpTo(S, n - 1)
         IN  shorter \cup {Append(q, g) : q \in shorter, g \in S}

GateLists ==
    {<<Gate("x", a)>> : a \in IntLits \cup SliceLits \cup BadLits \cup Tuples}
        \cup {<<Gate("cx", a)>> : a \in PairSpecs}
        \cup {<<Gate(k, PyInt(0))>> : k \in OneQubitNames}
        \cup {<<Gate(k, PyTuple(<<PyInt(0), PyInt(1)>>))>> : k \in TwoQubitNames}
        \cup SeqsUpTo(CountGates, MaxGates)

NoCall == [fn |-> "none", i |-> 0, res |-> Ok(<<>>)]

InitGate ==
    /\ ops \in GateLists
    /\ length \in Lengths
    /\ ret = NoCall
    /\ run_history = <<>>
    /\ runs_ok = 0

\* gate.target_iter(n_qubits), drained by the caller
TargetIter(i) ==
    /\ ops[i].lowername \in OneQubitNames
    /\ ret' = [fn |-> "target_iter", i |-> i, res |-> target_iter(ops[i], length)]
    /\ UNCHANGED <<ops, length, run_history, runs_ok>>

\* gate.control_target_iter(n_qubits)
ControlTargetIter(i) ==
    /\ ops[i].lowername \in TwoQubitNames
    /\ ret' = [fn |-> "control_target_iter", i |-> i,
               res |-> control_target_iter(ops[i], length)]
    /\ UNCHANGED <<ops, length, run_history, runs_ok>>

\* get_maximum_index(gate.targets)
GetMaximumIndex(i) ==
    /\ ret' = [fn |-> "get_maximum_index", i |-> i,
               res |-> get_maximum_index(ops[i].targets)]
    /\ UNCHANGED <<ops, length, run_history, runs_ok>>

\* find_n_qubits(gates)
FindNQubits ==
    /\ ret' = [fn |-> "find_n_qubits", i |-> 0, res |-> find_n_qubits(ops)]
    /\ UNCHANGED <<ops, length, run_history, runs_ok>>

\* gate.fallback()
Fallback(i) ==
    /\ ret' = [fn |-> "fallback", i |-> i, res |-> Gate_fallback(ops[i])]
    /\ UNCHANGED <<ops, length, run_history, runs_ok>>

NextGate ==
    \/ \E i \in 1..Len(ops) : TargetIter(i)
    \/ \E i \in 1..Len(ops) : ControlTargetIter(i)
    \/ \E i \in 1..Len(ops) : GetMaximumIndex(i)
    \/ FindNQubits
    \/ \E i \in 1..Len(ops) : Fallback(i)

SpecGate == InitGate /\ [][NextGate]_vars

(***************************************************************************)
(* State-vector engine and measurement sampler of Circuit.run().  The      *)
(* amplitude of basis index j is amp[j + 1] / sqrt(norm); bit q of j is    *)
(* qubit q.  Only kinds with real amplitudes are applied: x, h, cx and     *)
(* measure natively, i through its fallback.                               *)
(***************************************************************************)
RECURSIVE Pow2(_)
Pow2(k) == IF k = 0 THEN 1 ELSE 2 * Pow2(k - 1)

Bit(j, q) == (j \div Pow2(q)) % 2
FlipBit(j, q) == IF Bit(j, q) = 1 THEN j - Pow2(q) ELSE j + Pow2(q)

RECURSIVE SumSeq(_)
SumSeq(s) == IF s = <<>> THEN 0 ELSE Head(s) + SumSeq(Tail(s))

\* |0...0> on n qubits
ZeroState(n) == [amp |-> [j \in 1..Pow2(n) |-> IF j = 1 THEN 1 ELSE 0], norm |-> 1]

\* Lowest terms of the pair (amp, norm).
RECURSIVE Reduce(_)
Reduce(sv) ==
    IF sv.norm % 4 = 0 /\ \A j \in 1..Len(sv.amp) : sv.amp[j] % 2 = 0
    THEN Reduce([amp |-> [j \in 1..Len(sv.amp) |-> sv.amp[j] \div 2],
                 norm |-> sv.norm \div 4])
    ELSE sv

ApplyX(sv, q) ==
    [sv EXCEPT !.amp = [j \in 1..Len(sv.amp) |-> sv.amp[FlipBit(j - 1, q) + 1]]]

ApplyH(sv, q) ==
    Reduce([amp |-> [j \in 1..Len(sv.amp) |->
                        IF Bit(j - 1, q) = 0
                        THEN sv.amp[j] + sv.amp[FlipBit(j - 1, q) + 1]
                        ELSE sv.amp[FlipBit(j - 1, q) + 1] - sv.amp[j]],
            norm |-> 2 * sv.norm])

ApplyCX(sv, c, z) ==
    [sv EXCEPT !.amp = [j \in 1..Len(sv.amp) |->
                           IF Bit(j - 1, c) = 1
                           THEN sv.amp[FlipBit(j - 1, z) + 1]
                           ELSE sv.amp[j]]]

\* p1 * norm: the squared magnitudes of the indices whose bit q is 1
Weight1(sv, q) ==
    SumSeq([j \in 1..Len(sv.amp) |->
               IF Bit(j - 1, q) = 1 THEN sv.amp[j] * sv.amp[j] ELSE 0])

\* The projection onto bit q = bit, renormalised; w is its weight.
Collapse(sv, q, bit, w) ==
    [bit |-> bit,
     err |-> IF w = 0 THEN "ZeroDivisionError" ELSE "none",
     sv |-> IF w = 0 THEN sv
            ELSE Reduce([amp |-> [j \in 1..Len(sv.amp) |->
                                     IF Bit(j - 1, q) = bit THEN sv.amp[j] ELSE 0],
                         norm |-> w])]

\* measure(state, qubit, rng) with the draw d / DrawDen: the outcome is 1 iff
\* the draw is < p1; the state collapses and is renormalised.
MeasureWith(sv, q, d, w1) ==
    IF d * sv.norm < w1 * DrawDen
    THEN Collapse(sv, q, 1, w1)
    ELSE Collapse(sv, q, 0, sv.norm - w1)

Measure(sv, q, d) == MeasureWith(sv, q, d, Weight1(sv, q))

\* The run's working state: the live vector, the classical register, the
\* measurement events so far, and the error that stopped the run.
Fail(st, e) == [st EXCEPT !.err = e]

\* The outcome of a measurement is recorded under its qubit index.
Record(st, q, m) ==
    IF m.err # "none" THEN Fail(st, m.err)
    ELSE [st EXCEPT !.sv = m.sv,
                    !.cregs = [st.cregs EXCEPT ![q + 1] = m.bit],
                    !.events = Append(st.events, <<q, m.bit>>)]

ApplyOne(name, st, q, draws) ==
    IF st.err # "none" THEN st
    ELSE IF q < 0 \/ q >= Len(st.cregs) THEN Fail(st, "IndexError")
    ELSE IF name = "x" THEN [st EXCEPT !.sv = ApplyX(st.sv, q)]
    ELSE IF name = "h" THEN [st EXCEPT !.sv = ApplyH(st.sv, q)]
    ELSE Record(st, q, Measure(st.sv, q, draws[Len(st.events) + 1]))

RECURSIVE ApplyTargets(_, _, _, _)
ApplyTargets(name, st, targets, draws) ==
    IF targets = <<>> THEN st
    ELSE ApplyTargets(name, ApplyOne(name, st, Head(targets), draws),
                      Tail(targets), draws)

ApplyPair(st, c, z) ==
    IF st.err # "none" THEN st
    ELSE IF c < 0 \/ c >= Len(st.cregs) \/ z < 0 \/ z >= Len(st.cregs)
         THEN Fail(st, "IndexError")
    ELSE [st EXCEPT !.sv = ApplyCX(st.sv, c, z)]

RECURSIVE ApplyPairs(_, _)
ApplyPairs(st, pairs) ==
    IF pairs = <<>> THEN st
    ELSE ApplyPairs(ApplyPair(st, Head(pairs)[1], Head(pairs)[2]), Tail(pairs))

NativeNames == {"x", "h", "cx", "measure"}

\* The error of a resolver that raised after the state was advanced.
Propagate(st, e) == IF st.err = "none" /\ e # "none" THEN Fail(st, e) ELSE st

ApplyResolvedPairs(st, pairs) ==
    IF pairs.err # "none" THEN Fail(st, pairs.err) ELSE ApplyPairs(st, pairs.out)

ApplyResolved(name, st, targets, draws) ==
    Propagate(ApplyTargets(name, st, targets.out, draws), targets.err)

\* A gate with a native rule: resolve its targets, apply it to each.
ApplyGate(gate, st, draws) ==
    IF gate.lowername \in TwoQubitNames
    THEN ApplyResolvedPairs(st, control_target_iter(gate, Len(st.cregs)))
    ELSE ApplyResolved(gate.lowername, st, target_iter(gate, Len(st.cregs)), draws)

\* The fallback of a gate without a native rule, spliced in for this run.
Expand(fb, rest) == IF fb.err # "none" THEN <<>> ELSE fb.out \o rest

\* Gates in append order; a gate without a native rule is replaced, for this
\* run only, by its fallback.
RECURSIVE RunGates(_, _, _)
RunGates(gates, st, draws) ==
    IF gates = <<>> \/ st.err # "none" THEN st
    ELSE IF Head(gates).lowername \notin NativeNames
    THEN RunGates(Expand(Gate_fallback(Head(gates)), Tail(gates)),
                  Propagate(st, Gate_fallback(Head(gates)).err), draws)
    ELSE RunGates(Tail(gates), ApplyGate(Head(gates), st, draws), draws)

HasMeasure(gates) == \E k \in 1..Len(gates) : gates[k].lowername = "measure"

Failed(e) == [out |-> <<>>, err |-> e, record |-> <<>>, events |-> <<>>]

StartState(n) ==
    [sv |-> ZeroState(n), cregs |-> [q \in 1..n |-> 0],
     events |-> <<>>, err |-> "none"]

\* What run() returns and logs once the last gate is applied.
Finish(st, gates) ==
    IF st.err # "none" THEN Failed(st.err)
    ELSE [out |-> st.sv, err |-> "none",
          record |-> IF HasMeasure(gates) THEN st.cregs ELSE <<>>,
          events |-> st.events]

RunOn(n, gates, draws) ==
    IF n.err # "none" THEN Failed(n.err)
    ELSE IF n.out < 0 THEN Failed("ValueError")
    ELSE Finish(RunGates(gates, StartState(n.out), draws), gates)

\* Circuit.run() with the sampler's draws: the final vector and the record.
Circuit_run(gates, draws) == RunOn(find_n_qubits(gates), gates, draws)

\* Gates the builder appends in the model.
CircuitGates ==
    {Gate("i", PyInt(0)), Gate("x", PyInt(0)),
     Gate("x", PySlice(None, None, None)), Gate("h", PyInt(0)),
     Gate("measure", PyInt(0)), Gate("measure", PyInt(1)),
     Gate("measure", PyInt(-1)),
     Gate("cx", PyTuple(<<PyInt(0), PyInt(1)>>)),
     Gate("cx", PyTuple(<<PyInt(0), PyInt(0)>>))}

Draws == 0..(DrawDen - 1)
NumMeasure(gates) == Cardinality({k \in 1..Len(gates) : gates[k].lowername = "measure"})

Init ==
    /\ ops = <<>>
    /\ length = 0
    /\ ret = NoCall
    /\ run_history = <<>>
    /\ runs_ok = 0

\* circuit.<kind>[targets]: appends one gate, resolved lazily
AppendGate(g) ==
    /\ Len(ops) < MaxOps
    /\ ops' = Append(ops, g)
    /\ ret' = [fn |-> "append", i |-> Len(ops) + 1, res |-> Ok(<<>>)]
    /\ UNCHANGED <<length, run_history, runs_ok>>

\* circuit.run()
Run(draws) ==
    /\ runs_ok < MaxRuns
    /\ LET r == Circuit_run(ops, draws)
       IN  /\ ret' = [fn |-> "run", i |-> 0, res |-> r]
           /\ IF r.err = "none"
              THEN /\ run_history' = Append(run_history, r.record)
                   /\ runs_ok' = runs_ok + 1
              ELSE UNCHANGED <<run_history, runs_ok>>
    /\ UNCHANGED <<ops, length>>

Next ==
    \/ \E g \in CircuitGates : AppendGate(g)
    \/ \E draws \in [1..NumMeasure(ops) -> Draws] : Run(draws)

Spec == Init /\ [][Next]_vars

(***************************************************************************)
(* Properties of the addressing calls, checked under SpecGate.             *)
(***************************************************************************)
Called(fn) == ret.fn = fn
Arg == ops[ret.i].targets
IsPair(a) == a.t = "tuple" /\ Len(a.items) = 2
StepOf(a) == IF a.step = None THEN 1 ELSE a.step.v
Clamp(x, lo, hi) == Max2(lo, Min2(hi, x))
Offset(x, n) == IF x < 0 THEN x + n ELSE x

\* C1: a single integer index resolves to one value in [0, n) (i, or i + n
\* for negative i), or the call fails with IndexError; an out-of-range
\* value is never yielded.
C1_SingleIndexInRangeOrIndexError ==
    (Called("target_iter") /\ Arg.t = "int") =>
        LET v == Offset(Arg.v, length)
        IN  IF 0 <= v /\ v < length
            THEN ret.res = Ok(<<v>>)
            ELSE ret.res.err = "IndexError" /\ ret.res.out = <<>>

\* C2: qubit_pairs raises ValueError unless the specifier is a 2-tuple whose
\* resolved sides have equal length and differ at every position, and then
\* returns the pairs (control[k], target[k]) in order.
C2_QubitPairs ==
    Called("control_target_iter") =>
        /\ ~IsPair(Arg) => ret.res.err = "ValueError"
        /\ (/\ IsPair(Arg)
            /\ slicing(Arg.items[1], length).err = "none"
            /\ slicing(Arg.items[2], length).err = "none") =>
               LET cs == slicing(Arg.items[1], length).out
                   zs == slicing(Arg.items[2], length).out
               IN  IF Len(cs) # Len(zs) THEN ret.res.err = "ValueError"
                   ELSE IF \E k \in 1..Len(cs) : cs[k] = zs[k]
                        THEN ret.res.err = "ValueError"
                   ELSE /\ ret.res.err = "none"
                        /\ Len(ret.res.out) = Len(cs)
                        /\ \A k \in 1..Len(cs) : ret.res.out[k] = <<cs[k], zs[k]>>

C2_Witness ==
    /\ Called("control_target_iter")
    /\ ret.res = Ok(<<<<0, 1>>, <<1, 0>>>>)
    /\ Arg.items[1].t = "slice"
    /\ Arg.items[2].t = "tuple"

\* Well-formed specifiers with non-negative literals, and the largest index
\* each references.
NonNegAtom(x) ==
    \/ x.t = "int" /\ x.v >= 0
    \/ /\ x.t = "slice"
       /\ x.start # None => x.start.v >= 0
       /\ x.stop # None => x.stop.v >= 0
NonNegSpec(a) ==
    IF a.t = "tuple"
    THEN a.items # <<>> /\ \A k \in 1..Len(a.items) : NonNegAtom(a.items[k])
    ELSE NonNegAtom(a)
NonNegGate(g) ==
    IF g.lowername \in TwoQubitNames
    THEN IsPair(g.targets) /\ NonNegSpec(g.targets.items[1])
                           /\ NonNegSpec(g.targets.items[2])
    ELSE NonNegSpec(g.targets)
LargestAtom(x) ==
    IF x.t = "int" THEN x.v
    ELSE Max2(IF x.start = None THEN -1 ELSE x.start.v,
              IF x.stop = None THEN -1 ELSE x.stop.v - 1)
LargestSpec(a) ==
    IF a.t = "tuple"
    THEN SeqMax([k \in 1..Len(a.items) |-> LargestAtom(a.items[k])])
    ELSE LargestAtom(a)
LargestGate(g) ==
    IF g.lowername \in TwoQubitNames
    THEN Max2(LargestSpec(g.targets.items[1]), LargestSpec(g.targets.items[2]))
    ELSE LargestSpec(g.targets)

\* C3: find_n_qubits returns 1 + the largest index any gate references
\* (0 for the empty list), also for two-qubit gates whose sides are tuples.
C3_FindNQubitsIsOnePlusLargest ==
    (Called("find_n_qubits") /\ \A k \in 1..Len(ops) : NonNegGate(ops[k])) =>
        ret.res = Ok(IF ops = <<>> THEN 0
                     ELSE 1 + SeqMax([k \in 1..Len(ops) |-> LargestGate(ops[k])]))

\* Start and stop of a range by the slice rules.
RangeStart(a, n) ==
    IF a.start = None THEN (IF StepOf(a) > 0 THEN 0 ELSE n - 1)
    ELSE IF StepOf(a) > 0 THEN Clamp(Offset(a.start.v, n), 0, n)
    ELSE Clamp(Offset(a.start.v, n), -1, n - 1)
RangeStop(a, n) ==
    IF a.stop = None THEN (IF StepOf(a) > 0 THEN n ELSE -1)
    ELSE IF StepOf(a) > 0 THEN Clamp(Offset(a.stop.v, n), 0, n)
    ELSE Clamp(Offset(a.stop.v, n), -1, n - 1)
Before(x, e, step) == IF step > 0 THEN x < e ELSE x > e

\* C4: a range with non-zero step resolves, without error, to exactly the
\* arithmetic progression from its start that stops before its stop bound,
\* and every value is in [0, n).
C4_RangeProgression ==
    (Called("target_iter") /\ Arg.t = "slice" /\ StepOf(Arg) # 0) =>
        LET s == RangeStart(Arg, length)
            e == RangeStop(Arg, length)
            st == StepOf(Arg)
            out == ret.res.out
        IN  /\ ret.res.err = "none"
            /\ \A k \in 1..Len(out) :
                  /\ out[k] = s + (k - 1) * st
                  /\ Before(out[k], e, st)
                  /\ 0 <= out[k] /\ out[k] < length
            /\ ~Before(s + Len(out) * st, e, st)

C4_Witness ==
    /\ Called("target_iter")
    /\ Arg.t = "slice"
    /\ Arg.start # None /\ Arg.start.v >= length
    /\ StepOf(Arg) = -2
    /\ ret.res = Ok(<<2, 0>>)

\* Specifiers holding an element that is neither an integer nor a range.
BadAtom(x) == x.t \notin {"int", "slice"}
BadSpec(a) ==
    IF a.t = "tuple" THEN \E k \in 1..Len(a.items) : BadAtom(a.items[k])
    ELSE BadAtom(a)
BadGate(g) ==
    IF g.lowername \in TwoQubitNames
    THEN IsPair(g.targets) /\ (BadSpec(g.targets.items[1])
                               \/ BadSpec(g.targets.items[2]))
    ELSE BadSpec(g.targets)

\* C5: every call that inspects a specifier holding a non-integer, non-range
\* element fails with TypeError.
C5_BadElementRaisesTypeError ==
    /\ (ret.fn \in {"target_iter", "control_target_iter", "get_maximum_index"}
           /\ BadGate(ops[ret.i])) => ret.res.err = "TypeError"
    /\ (Called("find_n_qubits") /\ \E k \in 1..Len(ops) : BadGate(ops[k])) =>
           ret.res.err = "TypeError"

\* C9: a negative single index contributes -1 to the maximum index, so
\* find_n_qubits never returns a negative count and returns 0 for a list of
\* negative single indices.
C9_NegativeIndexCountsAsOpenEnded ==
    /\ (Called("get_maximum_index") /\ Arg.t = "int" /\ Arg.v < 0) =>
           ret.res = Ok(-1)
    /\ (Called("find_n_qubits") /\ ret.res.err = "none") => ret.res.out >= 0
    /\ (Called("find_n_qubits") /\ ops # <<>>
           /\ \A k \in 1..Len(ops) :
                 ops[k].targets.t = "int" /\ ops[k].targets.v < 0) =>
           ret.res = Ok(0)

\* C10: fallback of an Identity gate returns the empty gate sequence, of any
\* other gate raises NotImplementedError, and neither changes the gate
\* (targets, theta) or the gate list holding it.
C10_Fallback ==
    [][ret'.fn = "fallback" =>
          /\ ops' = ops
          /\ ops[ret'.i].lowername = "i" => ret'.res = Ok(<<>>)
          /\ ops[ret'.i].lowername # "i" =>
                 ret'.res.err = "NotImplementedError" /\ ret'.res.out = <<>>]_vars

C10_Witness ==
    /\ Called("fallback")
    /\ ops[ret.i].lowername = "rz"
    /\ ops[ret.i].theta = "theta"
    /\ ret.res.err = "NotImplementedError"

(***************************************************************************)
(* Properties of Circuit.run(), checked under Spec.                        *)
(***************************************************************************)
\* The qubit count of a gate list: 1 + the largest literal index.
QubitCount(gates) ==
    IF gates = <<>> THEN 0
    ELSE 1 + SeqMax([k \in 1..Len(gates) |-> LargestGate(gates[k])])

\* Whether a one-qubit specifier addresses qubit q of n.
Addresses(a, q, n) ==
    \/ a.t = "int" /\ Offset(a.v, n) = q
    \/ a.t = "slice" /\ a.start = None /\ a.stop = None /\ StepOf(a) = 1
MeasuredIn(gates, q, n) ==
    \E k \in 1..Len(gates) :
        gates[k].lowername = "measure" /\ Addresses(gates[k].targets, q, n)
EventsOf(events, q) == {k \in 1..Len(events) : events[k][1] = q}
LastOutcome(events, q) ==
    events[CHOOSE k \in EventsOf(events, q) : \A j \in EventsOf(events, q) : j <= k][2]
RanOk == Called("run") /\ ret.res.err = "none"
LastRecord == run_history[Len(run_history)]
SamePairLiteral(g) ==
    /\ g.lowername \in TwoQubitNames
    /\ IsPair(g.targets)
    /\ g.targets.items[1].t = "int"
    /\ g.targets.items[1] = g.targets.items[2]

IsBasis(sv) == Cardinality({j \in 1..Len(sv.amp) : sv.amp[j] # 0}) = 1
BasisIndex(sv) == (CHOOSE j \in 1..Len(sv.amp) : sv.amp[j] # 0) - 1
OnlyXThenMeasure(gates) ==
    /\ gates # <<>>
    /\ gates[Len(gates)].lowername = "measure"
    /\ \A k \in 1..(Len(gates) - 1) : gates[k].lowername = "x"
XCount(gates, q, n) ==
    Cardinality({k \in 1..Len(gates) :
                    gates[k].lowername = "x" /\ Addresses(gates[k].targets, q, n)})

\* C8: measuring qubit q of a computational-basis state returns bit q of
\* its index for every draw and leaves the state unchanged; a circuit of X
\* gates followed by a measurement of q records the parity of the X gates
\* that addressed q.
C8_BasisStateMeasurement ==
    /\ (RanOk /\ IsBasis(ret.res.out)) =>
           \A q \in 0..(QubitCount(ops) - 1) : \A d \in Draws :
               /\ Measure(ret.res.out, q, d).bit = Bit(BasisIndex(ret.res.out), q)
               /\ Measure(ret.res.out, q, d).err = "none"
               /\ Measure(ret.res.out, q, d).sv = ret.res.out
    /\ (RanOk /\ OnlyXThenMeasure(ops)) =>
           LET n == QubitCount(ops)
               q == Offset(ops[Len(ops)].targets.v, n)
           IN  LastRecord[q + 1] = XCount(ops, q, n) % 2

C8_Witness ==
    /\ RanOk
    /\ ops = <<Gate("x", PySlice(None, None, None)), Gate("measure", PyInt(1))>>
    /\ IsBasis(ret.res.out)
    /\ ret.res.events = <<<<1, 1>>>>
    /\ LastRecord = <<0, 1>>

=============================================================================
